---- MODULE Spec2Model ----
(***************************************************************************)
(* Pasanaku API: the use cases of the groups, members, rounds and payments  *)
(* modules over their repositories, the HTTP routers that call them, and    *)
(* the bearer-token dependency.                                             *)
(*                                                                          *)
(* Identifiers.  uuid4() values are opaque and unique.  Group and round ids *)
(* are drawn from a counter (a deleted group's id is never issued again,    *)
(* because member and round rows keep referring to it).  A member row's id  *)
(* is the triple <<group_id, user_id, k>>: nothing in the program stores a  *)
(* member id, so any injective naming of the rows is the same program.      *)
(*                                                                          *)
(* Python values that reach a comparison keep their type: a requester id is *)
(* [ty |-> "UUID", v |-> n] or [ty |-> "str", v |-> n], and uuid.UUID !=    *)
(* str is True for every pair of values.                                    *)
(***************************************************************************)
EXTENDS Integers, FiniteSets, Sequences, TLC

\* ---------------------------------------------------------------- bounds
NumRequesters == 2
NumUsers == 3
MaxGroups == 2
MaxRounds == 1
MaxCap == 3
MaxUsers == 2
NumEmails == 2
NumPasswords == 2
NumNames == 2

\* ------------------------------------------------------------- constants
\* CreateGroupRequest.max_members / UpdateGroupRequest.max_members: gt=1
MinCap == 2

Users == 1..NumUsers
GroupIds == 1..MaxGroups
RoundIds == 1..MaxRounds
Caps == MinCap..MaxCap
Names == 1..NumNames

\* ------------------------------------------------------- typed id values
Uuid(n) == [ty |-> "UUID", v |-> n]
Str(x) == [ty |-> "str", v |-> x.v]
\* uuid.UUID.__eq__ returns NotImplemented for a str operand, so != is True
PyNe(a, b) == a.ty # b.ty \/ a.v # b.v
\* a UUID(as_uuid=True) column hands back uuid.UUID whatever was bound
ColumnUuid(x) == [ty |-> "UUID", v |-> x.v]

\* Optional payload fields: <<>> is None, <<x>> is the value x
None == <<>>
Some(x) == <<x>>
IsNone(o) == o = <<>>

VARIABLES groups, groupSeq, members, rounds, payments, last, reqs, users

vars == <<groups, groupSeq, members, rounds, payments, last, reqs, users>>

\* --------------------------------------------------------- repositories
GroupExists(gs, gid) == gid \in DOMAIN gs

\* SQLAlchemyGroupRepository.create: INSERT, commit, refresh
GroupRepoCreate(gs, gid, g) ==
    [x \in DOMAIN gs \cup {gid} |->
        IF x = gid THEN [g EXCEPT !.host_id = ColumnUuid(g.host_id)] ELSE gs[x]]

\* SQLAlchemyGroupRepository.update: copies name .. max_members, status, updated_at; never host_id
GroupRepoUpdate(gs, gid, g) ==
    [gs EXCEPT ![gid] = [@ EXCEPT !.name = g.name, !.max_members = g.max_members,
                                  !.status = g.status]]

\* SQLAlchemyGroupRepository.delete
GroupRepoDelete(gs, gid) == [x \in DOMAIN gs \ {gid} |-> gs[x]]

\* SQLAlchemyMemberRepository.count_active
CountActive(ms, gid) ==
    Cardinality({m \in ms : m.group_id = gid /\ m.status = "active"})

\* SQLAlchemyMemberRepository.get_by_user_and_group: the matching rows
RowsByUserAndGroup(ms, uid, gid) ==
    {m \in ms : m.user_id = uid /\ m.group_id = gid}

\* SQLAlchemyMemberRepository.get_by_id
MemberExists(ms, mid) == \E m \in ms : m.id = mid

\* uuid4(): an id no stored row has
FreshMemberId(ms, gid, uid) ==
    LET used == {m.id[3] : m \in RowsByUserAndGroup(ms, uid, gid)}
        k == CHOOSE i \in 0..Cardinality(used) : i \notin used
    IN <<gid, uid, k>>

\* Member(group_id, user_id) then confirm()
NewMember(ms, gid, uid) ==
    [id |-> FreshMemberId(ms, gid, uid), group_id |-> gid, user_id |-> uid,
     status |-> "active"]

\* mutant: SQLAlchemyMemberRepository.create on a table with a unique
\* (user_id, group_id) constraint, the violation swallowed
MemberRepoCreateUnique(ms, m) ==
    IF \E x \in ms : x.user_id = m.user_id /\ x.group_id = m.group_id THEN ms ELSE ms \cup {m}

\* SQLAlchemyMemberRepository.create
MemberRepoCreate(ms, m) == ms \cup {m}

\* mutant: SQLAlchemyMemberRepository.delete keeping the row, marked removed
MemberRepoDeleteSoft(ms, mid) ==
    {IF m.id = mid THEN [m EXCEPT !.status = "removed"] ELSE m : m \in ms}

\* SQLAlchemyMemberRepository.delete
MemberRepoDelete(ms, mid) == {m \in ms : m.id # mid}

\* SQLAlchemyRoundRepository.get_by_id
RoundExists(rs, rid) == rid \in DOMAIN rs

\* SQLAlchemyRoundRepository.create
RoundRepoCreate(rs, rid, r) == [x \in DOMAIN rs \cup {rid} |-> IF x = rid THEN r ELSE rs[x]]

\* SQLAlchemyRoundRepository.update: copies status (and updated_at) only
RoundRepoUpdate(rs, rid, r) == [rs EXCEPT ![rid] = [@ EXCEPT !.status = r.status]]

\* SQLAlchemyPaymentRepository.get_by_payer_and_round: the matching rows
RowsByPayerAndRound(ps, payer, rid) ==
    {p \in ps : p.payer_id = payer /\ p.round_id = rid}

FreshPaymentId(ps, rid, payer) ==
    LET used == {p.id[3] : p \in RowsByPayerAndRound(ps, payer, rid)}
        k == CHOOSE i \in 0..Cardinality(used) : i \notin used
    IN <<rid, payer, k>>

\* Payment(round_id, payer_id, amount): status PENDING, paid_at None
Payment(ps, rid, payer) ==
    [id |-> FreshPaymentId(ps, rid, payer), round_id |-> rid, payer_id |-> payer,
     status |-> "pending", paid_at |-> None]

\* Payment.confirm
PaymentConfirm(p) == [p EXCEPT !.status = "confirmed", !.paid_at = Some("now")]

\* mutant: the payment persisted as constructed, confirm() not called
NewPaymentUnconfirmed(ps, rid, payer) == Payment(ps, rid, payer)

\* Payment(round_id, payer_id, amount) then confirm()
NewPayment(ps, rid, payer) == PaymentConfirm(Payment(ps, rid, payer))

\* mutant: SQLAlchemyPaymentRepository.create on a table with a unique
\* (payer_id, round_id) constraint, the violation swallowed
PaymentRepoCreateUnique(ps, p) ==
    IF \E x \in ps : x.payer_id = p.payer_id /\ x.round_id = p.round_id THEN ps ELSE ps \cup {p}

\* SQLAlchemyPaymentRepository.create
PaymentRepoCreate(ps, p) == ps \cup {p}

\* ------------------------------------------------------------ use cases
\* Each XResult is the exception the use case raises, or "ok".

\* mutant: Group(...) built with the requester left out, the group cancelled
NewGroupCancelled(payload, host_id) ==
    [name |-> payload.name, host_id |-> Uuid(0), max_members |-> payload.max_members,
     status |-> "cancelled"]

\* Group(...) as CreateGroupUseCase builds it
NewGroup(payload, host_id) ==
    [name |-> payload.name, host_id |-> host_id, max_members |-> payload.max_members,
     status |-> "active"]

\* mutant: UpdateGroupUseCase.execute without the host check
UpdateGroupResultNoHostCheck(gs, gid, requester_id) ==
    IF ~GroupExists(gs, gid) THEN "NotFoundError" ELSE "ok"

\* UpdateGroupUseCase.execute, the checks
UpdateGroupResult(gs, gid, requester_id) ==
    IF ~GroupExists(gs, gid) THEN "NotFoundError"
    ELSE IF PyNe(gs[gid].host_id, requester_id) THEN "ForbiddenError"
    ELSE "ok"

\* mutant: UpdateGroupUseCase.execute assigning every payload field, None included
UpdateGroupFieldsUnguarded(g, payload) ==
    [g EXCEPT !.name = IF IsNone(payload.name) THEN 0 ELSE payload.name[1],
              !.max_members = IF IsNone(payload.max_members) THEN 0
                              ELSE payload.max_members[1]]

\* UpdateGroupUseCase.execute, the field assignments
UpdateGroupFields(g, payload) ==
    [g EXCEPT !.name = IF IsNone(payload.name) THEN @ ELSE payload.name[1],
              !.max_members = IF IsNone(payload.max_members) THEN @
                              ELSE payload.max_members[1]]

\* DeleteGroupUseCase.execute, the checks
DeleteGroupResult(gs, gid, requester_id) ==
    IF ~GroupExists(gs, gid) THEN "NotFoundError"
    ELSE IF PyNe(gs[gid].host_id, requester_id) THEN "ForbiddenError"
    ELSE "ok"

\* mutant: AddMemberUseCase.execute with the duplicate check before the capacity check
AddMemberResultDuplicateFirst(gs, ms, gid, uid, requester_id) ==
    IF ~GroupExists(gs, gid) THEN "NotFoundError"
    ELSE IF PyNe(gs[gid].host_id, requester_id) THEN "ForbiddenError"
    ELSE IF RowsByUserAndGroup(ms, uid, gid) # {} THEN "DuplicateEntityError"
    ELSE IF CountActive(ms, gid) >= gs[gid].max_members THEN "ValueError"
    ELSE "ok"

\* mutant: AddMemberUseCase.execute with > for >= in the capacity check
AddMemberResultOffByOne(gs, ms, gid, uid, requester_id) ==
    IF ~GroupExists(gs, gid) THEN "NotFoundError"
    ELSE IF PyNe(gs[gid].host_id, requester_id) THEN "ForbiddenError"
    ELSE IF CountActive(ms, gid) > gs[gid].max_members THEN "ValueError"
    ELSE IF RowsByUserAndGroup(ms, uid, gid) # {} THEN "DuplicateEntityError"
    ELSE "ok"

\* mutant: AddMemberUseCase.execute with the capacity check before the host check
AddMemberResultCapacityFirst(gs, ms, gid, uid, requester_id) ==
    IF ~GroupExists(gs, gid) THEN "NotFoundError"
    ELSE IF CountActive(ms, gid) >= gs[gid].max_members THEN "ValueError"
    ELSE IF PyNe(gs[gid].host_id, requester_id) THEN "ForbiddenError"
    ELSE IF Cardinality(RowsByUserAndGroup(ms, uid, gid)) > 1 THEN "MultipleResultsFound"
    ELSE IF RowsByUserAndGroup(ms, uid, gid) # {} THEN "DuplicateEntityError"
    ELSE "ok"

\* AddMemberUseCase.execute, the checks in the order of the code
AddMemberResult(gs, ms, gid, uid, requester_id) ==
    IF ~GroupExists(gs, gid) THEN "NotFoundError"
    ELSE IF PyNe(gs[gid].host_id, requester_id) THEN "ForbiddenError"
    ELSE IF CountActive(ms, gid) >= gs[gid].max_members THEN "ValueError"
    ELSE IF Cardinality(RowsByUserAndGroup(ms, uid, gid)) > 1 THEN "MultipleResultsFound"
    ELSE IF RowsByUserAndGroup(ms, uid, gid) # {} THEN "DuplicateEntityError"
    ELSE "ok"

\* mutant: RemoveMemberUseCase.execute without the host check
RemoveMemberResultNoHostCheck(gs, ms, gid, mid, requester_id) ==
    IF ~GroupExists(gs, gid) THEN "NotFoundError"
    ELSE IF ~MemberExists(ms, mid) THEN "NotFoundError"
    ELSE "ok"

\* RemoveMemberUseCase.execute, the checks
RemoveMemberResult(gs, ms, gid, mid, requester_id) ==
    IF ~GroupExists(gs, gid) THEN "NotFoundError"
    ELSE IF PyNe(gs[gid].host_id, requester_id) THEN "ForbiddenError"
    ELSE IF ~MemberExists(ms, mid) THEN "NotFoundError"
    ELSE "ok"

\* CreateRoundUseCase.execute, the checks
CreateRoundResult(gs, gid, requester_id) ==
    IF ~GroupExists(gs, gid) THEN "NotFoundError"
    ELSE IF PyNe(gs[gid].host_id, requester_id) THEN "ForbiddenError"
    ELSE "ok"

\* RoundStatus
RoundStatusValues == {"pending", "in_progress", "completed", "skipped"}

\* the status strings a request carries: the enum's values and one that is not
StatusStrings == RoundStatusValues \cup {"bogus"}

\* mutant: UpdateRoundStatusUseCase.execute resolving the round before the host check
UpdateRoundStatusResultRoundFirst(gs, rs, gid, rid, new_status, requester_id) ==
    IF ~GroupExists(gs, gid) THEN "NotFoundError"
    ELSE IF ~RoundExists(rs, rid) THEN "NotFoundError"
    ELSE IF PyNe(gs[gid].host_id, requester_id) THEN "ForbiddenError"
    ELSE IF new_status \notin RoundStatusValues THEN "ValueError"
    ELSE "ok"

\* mutant: UpdateRoundStatusUseCase.execute ignoring a string that is no RoundStatus
UpdateRoundStatusResultNoValidation(gs, rs, gid, rid, new_status, requester_id) ==
    IF ~GroupExists(gs, gid) THEN "NotFoundError"
    ELSE IF PyNe(gs[gid].host_id, requester_id) THEN "ForbiddenError"
    ELSE IF ~RoundExists(rs, rid) THEN "NotFoundError"
    ELSE "ok"

\* UpdateRoundStatusUseCase.execute, the checks
UpdateRoundStatusResult(gs, rs, gid, rid, new_status, requester_id) ==
    IF ~GroupExists(gs, gid) THEN "NotFoundError"
    ELSE IF PyNe(gs[gid].host_id, requester_id) THEN "ForbiddenError"
    ELSE IF ~RoundExists(rs, rid) THEN "NotFoundError"
    ELSE IF new_status \notin RoundStatusValues THEN "ValueError"
    ELSE "ok"

\* mutant: the transitions refused once the round is completed or skipped
ApplyStatusTerminal(r, status) ==
    IF r.status \in {"completed", "skipped"} THEN r
    ELSE IF status \in {"in_progress", "completed", "skipped"} THEN [r EXCEPT !.status = status]
    ELSE r

\* mutant: a branch for PENDING that resets the round
ApplyStatusWithPending(r, status) == [r EXCEPT !.status = status]

\* UpdateRoundStatusUseCase.execute, start() / complete() / skip()
ApplyStatus(r, status) ==
    IF status = "in_progress" THEN [r EXCEPT !.status = "in_progress"]
    ELSE IF status = "completed" THEN [r EXCEPT !.status = "completed"]
    ELSE IF status = "skipped" THEN [r EXCEPT !.status = "skipped"]
    ELSE r

\* mutant: RegisterPaymentUseCase.execute letting only the payer register
RegisterPaymentResultPayerOnly(rs, ps, rid, payer, requester_id) ==
    IF ~RoundExists(rs, rid) THEN "NotFoundError"
    ELSE IF PyNe(Uuid(payer), requester_id) THEN "ForbiddenError"
    ELSE IF Cardinality(RowsByPayerAndRound(ps, payer, rid)) > 1 THEN "MultipleResultsFound"
    ELSE IF RowsByPayerAndRound(ps, payer, rid) # {} THEN "DuplicateEntityError"
    ELSE "ok"

\* mutant: RegisterPaymentUseCase.execute accepting payments for a round in progress only
RegisterPaymentResultInProgressOnly(rs, ps, rid, payer, requester_id) ==
    IF ~RoundExists(rs, rid) THEN "NotFoundError"
    ELSE IF rs[rid].status # "in_progress" THEN "ValueError"
    ELSE IF Cardinality(RowsByPayerAndRound(ps, payer, rid)) > 1 THEN "MultipleResultsFound"
    ELSE IF RowsByPayerAndRound(ps, payer, rid) # {} THEN "DuplicateEntityError"
    ELSE "ok"

\* mutant: RegisterPaymentUseCase.execute without the duplicate check
RegisterPaymentResultNoDuplicateCheck(rs, ps, rid, payer, requester_id) ==
    IF ~RoundExists(rs, rid) THEN "NotFoundError" ELSE "ok"

\* mutant: RegisterPaymentUseCase.execute refusing a round whose group is gone
RegisterPaymentResultGroupChecked(rs, ps, rid, payer, requester_id) ==
    IF ~RoundExists(rs, rid) THEN "NotFoundError"
    ELSE IF ~GroupExists(groups, rs[rid].group_id) THEN "NotFoundError"
    ELSE IF Cardinality(RowsByPayerAndRound(ps, payer, rid)) > 1 THEN "MultipleResultsFound"
    ELSE IF RowsByPayerAndRound(ps, payer, rid) # {} THEN "DuplicateEntityError"
    ELSE "ok"

\* RegisterPaymentUseCase.execute, the checks
RegisterPaymentResult(rs, ps, rid, payer, requester_id) ==
    IF ~RoundExists(rs, rid) THEN "NotFoundError"
    ELSE IF Cardinality(RowsByPayerAndRound(ps, payer, rid)) > 1 THEN "MultipleResultsFound"
    ELSE IF RowsByPayerAndRound(ps, payer, rid) # {} THEN "DuplicateEntityError"
    ELSE "ok"

\* the routers' except clauses
HttpStatus(result) ==
    CASE result = "NotFoundError" -> 404
      [] result = "ForbiddenError" -> 403
      [] result = "DuplicateEntityError" -> 409
      [] result = "ValueError" -> 400
      [] result = "Unauthorized" -> 401
      [] OTHER -> 500

\* ------------------------------------------------------- request inputs
\* requester ids as the use cases' signatures declare them (uuid.UUID)
Requesters == {Uuid(u) : u \in 1..NumRequesters}

\* The specification of all the use cases draws membership candidates from the
\* requesters and creates groups of the smallest capacity; the specification of
\* the membership use cases draws them from Users and Caps.
HostUsers == 1..NumRequesters
SmallCaps == {MinCap}
OneName == {1}
NoName == {}

\* the requests in flight: each runs AddMemberUseCase.execute one awaited
\* repository call at a time, on its own session
NumProcs == 2
Procs == 1..NumProcs
Idle == [pc |-> "idle"]

\* ---------------------------------------------------------------- state
Init ==
    /\ groups = <<>>
    /\ groupSeq = 0
    /\ members = {}
    /\ rounds = <<>>
    /\ payments = {}
    /\ last = [op |-> "init"]
    /\ reqs = [p \in Procs |-> Idle]
    /\ users = <<>>

\* --------------------------------------------------------------- actions
\* CreateGroupUseCase.execute, max_members drawn from C and name from N
CreateGroupWith(C, N) ==
    \E payload \in [max_members : C, name : N], host_id \in Requesters :
        /\ groupSeq < MaxGroups
        /\ groupSeq' = groupSeq + 1
        /\ groups' = GroupRepoCreate(groups, groupSeq + 1, NewGroup(payload, host_id))
        /\ last' = [op |-> "CreateGroup", result |-> "ok", group_id |-> groupSeq + 1,
                    requester_id |-> host_id, response |-> groups'[groupSeq + 1]]
        /\ UNCHANGED <<members, rounds, payments, reqs, users>>

\* UpdateGroupUseCase.execute, max_members None or drawn from C, name None or
\* drawn from N
UpdateGroupWith(C, N) ==
    \E gid \in GroupIds,
       payload \in [max_members : {None} \cup {Some(c) : c \in C},
                    name : {None} \cup {Some(n) : n \in N}],
       requester_id \in Requesters :
        LET res == UpdateGroupResult(groups, gid, requester_id) IN
        /\ groups' = IF res = "ok"
                     THEN GroupRepoUpdate(groups, gid, UpdateGroupFields(groups[gid], payload))
                     ELSE groups
        /\ last' = [op |-> "UpdateGroup", result |-> res, group_id |-> gid,
                    requester_id |-> requester_id, payload |-> payload]
        /\ UNCHANGED <<groupSeq, members, rounds, payments, reqs, users>>

\* DeleteGroupUseCase.execute
DeleteGroup ==
    \E gid \in GroupIds, requester_id \in Requesters :
        LET res == DeleteGroupResult(groups, gid, requester_id) IN
        /\ groups' = IF res = "ok" THEN GroupRepoDelete(groups, gid) ELSE groups
        /\ last' = [op |-> "DeleteGroup", result |-> res, group_id |-> gid,
                    requester_id |-> requester_id]
        /\ UNCHANGED <<groupSeq, members, rounds, payments, reqs, users>>

\* AddMemberUseCase.execute, payload.user_id drawn from U
AddMemberWith(U) ==
    \E gid \in GroupIds, uid \in U, requester_id \in Requesters :
        LET res == AddMemberResult(groups, members, gid, uid, requester_id) IN
        /\ members' = IF res = "ok"
                      THEN MemberRepoCreate(members, NewMember(members, gid, uid))
                      ELSE members
        /\ last' = [op |-> "AddMember", result |-> res, group_id |-> gid,
                    requester_id |-> requester_id, user_id |-> uid]
        /\ UNCHANGED <<groups, groupSeq, rounds, payments, reqs, users>>

\* every id a member row of a user of U can have, present or not
MemberIds(U) == {<<g, u, 0>> : g \in GroupIds, u \in U}

\* RemoveMemberUseCase.execute, member_id drawn from the ids of U's rows
RemoveMemberWith(U) ==
    \E gid \in GroupIds, mid \in MemberIds(U), requester_id \in Requesters :
        LET res == RemoveMemberResult(groups, members, gid, mid, requester_id) IN
        /\ members' = IF res = "ok" THEN MemberRepoDelete(members, mid) ELSE members
        /\ last' = [op |-> "RemoveMember", result |-> res, group_id |-> gid,
                    requester_id |-> requester_id, member_id |-> mid]
        /\ UNCHANGED <<groups, groupSeq, rounds, payments, reqs, users>>

\* CreateRoundUseCase.execute, while fewer than n rounds are stored
CreateRoundUpTo(n) ==
    \E gid \in GroupIds, requester_id \in Requesters :
        LET res == CreateRoundResult(groups, gid, requester_id)
            rid == Cardinality(DOMAIN rounds) + 1 IN
        /\ res = "ok" => rid <= n
        /\ rounds' = IF res = "ok"
                     THEN RoundRepoCreate(rounds, rid, [group_id |-> gid, status |-> "pending"])
                     ELSE rounds
        /\ last' = [op |-> "CreateRound", result |-> res, group_id |-> gid,
                    requester_id |-> requester_id]
        /\ UNCHANGED <<groups, groupSeq, members, payments, reqs, users>>

\* UpdateRoundStatusUseCase.execute, round_id drawn from R
UpdateRoundStatusOn(R) ==
    \E gid \in GroupIds, rid \in R, new_status \in StatusStrings,
       requester_id \in Requesters :
        LET res == UpdateRoundStatusResult(groups, rounds, gid, rid, new_status, requester_id) IN
        /\ rounds' = IF res = "ok"
                     THEN RoundRepoUpdate(rounds, rid, ApplyStatus(rounds[rid], new_status))
                     ELSE rounds
        /\ last' = [op |-> "UpdateRoundStatus", result |-> res, group_id |-> gid,
                    requester_id |-> requester_id, round_id |-> rid,
                    new_status |-> new_status]
        /\ UNCHANGED <<groups, groupSeq, members, payments, reqs, users>>

\* GetGroupUseCase.execute
GetGroupResult(gs, gid) == IF ~GroupExists(gs, gid) THEN "NotFoundError" ELSE "ok"

\* ListMembersUseCase.execute
ListMembersResult(gs, gid) == IF ~GroupExists(gs, gid) THEN "NotFoundError" ELSE "ok"

\* ListRoundsUseCase.execute
ListRoundsResult(gs, gid) == IF ~GroupExists(gs, gid) THEN "NotFoundError" ELSE "ok"

\* GetRoundUseCase.execute
GetRoundResult(rs, rid) == IF ~RoundExists(rs, rid) THEN "NotFoundError" ELSE "ok"

\* ListPaymentsUseCase.execute
ListPaymentsResult(rs, rid) == IF ~RoundExists(rs, rid) THEN "NotFoundError" ELSE "ok"

\* the use cases that only read: GetGroup, ListMembers, ListRounds
ReadGroup ==
    \E op \in {"GetGroup", "ListMembers", "ListRounds"}, gid \in GroupIds :
        /\ last' = [op |-> op, group_id |-> gid,
                    result |-> CASE op = "GetGroup" -> GetGroupResult(groups, gid)
                                 [] op = "ListMembers" -> ListMembersResult(groups, gid)
                                 [] op = "ListRounds" -> ListRoundsResult(groups, gid)]
        /\ UNCHANGED <<groups, groupSeq, members, rounds, payments, reqs, users>>

\* the use cases that only read: GetRound, ListPayments
ReadRound ==
    \E op \in {"GetRound", "ListPayments"}, rid \in RoundIds :
        /\ last' = [op |-> op, round_id |-> rid,
                    result |-> CASE op = "GetRound" -> GetRoundResult(rounds, rid)
                                 [] op = "ListPayments" -> ListPaymentsResult(rounds, rid)]
        /\ UNCHANGED <<groups, groupSeq, members, rounds, payments, reqs, users>>

\* RegisterPaymentUseCase.execute, payload.payer_id drawn from U
RegisterPaymentWith(U) ==
    \E rid \in RoundIds, payer \in U, requester_id \in Requesters :
        LET res == RegisterPaymentResult(rounds, payments, rid, payer, requester_id) IN
        /\ payments' = IF res = "ok"
                       THEN PaymentRepoCreate(payments, NewPayment(payments, rid, payer))
                       ELSE payments
        /\ last' = [op |-> "RegisterPayment", result |-> res, round_id |-> rid,
                    requester_id |-> requester_id, payer_id |-> payer]
        /\ UNCHANGED <<groups, groupSeq, members, rounds, reqs, users>>

\* ------------------------------------------------- all the host-gated use cases
CreateRound == CreateRoundUpTo(MaxRounds)
UpdateRoundStatus == UpdateRoundStatusOn(RoundIds)
CreateGroup == CreateGroupWith(SmallCaps, OneName)
UpdateGroup == UpdateGroupWith(SmallCaps, NoName)
AddMember == AddMemberWith(HostUsers)
RemoveMember == RemoveMemberWith(HostUsers)
RegisterPaymentOne == RegisterPaymentWith({1})

Next ==
    \/ CreateGroup
    \/ UpdateGroup
    \/ DeleteGroup
    \/ AddMember
    \/ RemoveMember
    \/ CreateRound
    \/ UpdateRoundStatus
    \/ ReadGroup
    \/ ReadRound
    \/ RegisterPaymentOne

Spec == Init /\ [][Next]_vars

\* ------------------------------------ the group and membership use cases
CreateGroupCap == CreateGroupWith(Caps, OneName)
UpdateGroupCap == UpdateGroupWith(Caps, NoName)
AddMemberCap == AddMemberWith(Users)
RemoveMemberCap == RemoveMemberWith(Users)

NextMembers ==
    \/ CreateGroupCap
    \/ UpdateGroupCap
    \/ AddMemberCap
    \/ RemoveMemberCap

SpecMembers == Init /\ [][NextMembers]_vars

\* ------------------------------------------------- the group use cases
NextGroups ==
    \/ CreateGroupCap
    \/ UpdateGroupCap
    \/ DeleteGroup
    \/ ReadGroup

SpecGroups == Init /\ [][NextGroups]_vars

\* ----------------------------------------------- the payment use cases
RegisterPayment == RegisterPaymentWith(Users)

NextPayments ==
    \/ CreateGroup
    \/ CreateRound
    \/ RegisterPayment
    \/ ReadRound

SpecPayments == Init /\ [][NextPayments]_vars

\* ------------------------------ payments against rounds of every status
NextRoundPayments ==
    \/ CreateGroup
    \/ CreateRound
    \/ UpdateRoundStatus
    \/ RegisterPayment

SpecRoundPayments == Init /\ [][NextRoundPayments]_vars

\* ------------------------------- AddMember, one awaited call at a time
\* Every await of AddMemberUseCase.execute is a point where another request
\* runs; repository reads see what is committed then, create commits at once.

\* the record a finished AddMember leaves
AddMemberDone(r, result) ==
    [op |-> "AddMember", result |-> result, group_id |-> r.group_id,
     requester_id |-> r.requester_id, user_id |-> r.user_id]

\* AddMemberUseCase.execute: group_repo.get_by_id and the host check
AddMemberBegin(p) ==
    \E gid \in GroupIds, uid \in HostUsers, requester_id \in Requesters :
        LET r == [pc |-> "count_active", group_id |-> gid, user_id |-> uid,
                  requester_id |-> requester_id] IN
        /\ reqs[p] = Idle
        /\ IF ~GroupExists(groups, gid)
           THEN last' = AddMemberDone(r, "NotFoundError") /\ UNCHANGED reqs
           ELSE IF PyNe(groups[gid].host_id, requester_id)
           THEN last' = AddMemberDone(r, "ForbiddenError") /\ UNCHANGED reqs
           ELSE /\ reqs' = [reqs EXCEPT ![p] =
                               [r EXCEPT !.pc = "count_active"] @@
                               [max_members |-> groups[gid].max_members]]
                /\ UNCHANGED last
        /\ UNCHANGED <<groups, groupSeq, members, rounds, payments, users>>

\* AddMemberUseCase.execute: member_repo.count_active and the capacity check
AddMemberCount(p) ==
    /\ reqs[p].pc = "count_active"
    /\ IF CountActive(members, reqs[p].group_id) >= reqs[p].max_members
       THEN last' = AddMemberDone(reqs[p], "ValueError") /\ reqs' = [reqs EXCEPT ![p] = Idle]
       ELSE reqs' = [reqs EXCEPT ![p].pc = "get_by_user_and_group"] /\ UNCHANGED last
    /\ UNCHANGED <<groups, groupSeq, members, rounds, payments, users>>

\* AddMemberUseCase.execute: member_repo.get_by_user_and_group and the duplicate check
AddMemberCheckDuplicate(p) ==
    LET rows == RowsByUserAndGroup(members, reqs[p].user_id, reqs[p].group_id) IN
    /\ reqs[p].pc = "get_by_user_and_group"
    /\ IF Cardinality(rows) > 1
       THEN last' = AddMemberDone(reqs[p], "MultipleResultsFound")
            /\ reqs' = [reqs EXCEPT ![p] = Idle]
       ELSE IF rows # {}
       THEN last' = AddMemberDone(reqs[p], "DuplicateEntityError")
            /\ reqs' = [reqs EXCEPT ![p] = Idle]
       ELSE reqs' = [reqs EXCEPT ![p].pc = "create"] /\ UNCHANGED last
    /\ UNCHANGED <<groups, groupSeq, members, rounds, payments, users>>

\* AddMemberUseCase.execute: member_repo.create
AddMemberCreate(p) ==
    /\ reqs[p].pc = "create"
    /\ members' = MemberRepoCreate(members,
                                   NewMember(members, reqs[p].group_id, reqs[p].user_id))
    /\ last' = AddMemberDone(reqs[p], "ok")
    /\ reqs' = [reqs EXCEPT ![p] = Idle]
    /\ UNCHANGED <<groups, groupSeq, rounds, payments, users>>

\* one group, created before the requests race for it
CreateFirstGroup == groupSeq = 0 /\ CreateGroupWith(SmallCaps, OneName)

NextConc ==
    \/ CreateFirstGroup
    \/ \E p \in Procs : AddMemberBegin(p)
    \/ \E p \in Procs : AddMemberCount(p)
    \/ \E p \in Procs : AddMemberCheckDuplicate(p)
    \/ \E p \in Procs : AddMemberCreate(p)

SpecConc == Init /\ [][NextConc]_vars

\* ------------------------------- the group use cases, every payload field
CreateGroupNamed == CreateGroupWith(Caps, Names)
UpdateGroupNamed == UpdateGroupWith(Caps, Names)

NextGroupFields ==
    \/ CreateGroupNamed
    \/ UpdateGroupNamed
    \/ DeleteGroup

SpecGroupFields == Init /\ [][NextGroupFields]_vars

\* ------------------------------------- the round use cases, several rounds
WideRoundIds == 1..(MaxRounds + 1)
CreateRoundWide == CreateRoundUpTo(MaxRounds + 1)
UpdateRoundStatusWide == UpdateRoundStatusOn(WideRoundIds)

NextRounds ==
    \/ CreateGroup
    \/ CreateRoundWide
    \/ UpdateRoundStatusWide

SpecRounds == Init /\ [][NextRounds]_vars

\* ------------------------- deleting a group that has members, rounds, payments
NextDeleteGroup ==
    \/ CreateGroup
    \/ DeleteGroup
    \/ AddMember
    \/ CreateRound
    \/ RegisterPaymentOne
    \/ ReadRound

SpecDeleteGroup == Init /\ [][NextDeleteGroup]_vars

\* ----------------------------- RegisterPayment, one awaited call at a time
\* Every await of RegisterPaymentUseCase.execute is a point where another
\* request runs; the reads see the committed rows, create commits at once.

\* the record a finished RegisterPayment leaves
RegisterPaymentDone(r, result) ==
    [op |-> "RegisterPayment", result |-> result, round_id |-> r.round_id,
     requester_id |-> r.requester_id, payer_id |-> r.payer_id]

\* RegisterPaymentUseCase.execute: round_repo.get_by_id
RegisterPaymentBegin(p) ==
    \E rid \in RoundIds, payer \in HostUsers, requester_id \in Requesters :
        LET r == [pc |-> "get_by_payer_and_round", round_id |-> rid, payer_id |-> payer,
                  requester_id |-> requester_id] IN
        /\ reqs[p] = Idle
        /\ IF ~RoundExists(rounds, rid)
           THEN last' = RegisterPaymentDone(r, "NotFoundError") /\ UNCHANGED reqs
           ELSE reqs' = [reqs EXCEPT ![p] = r] /\ UNCHANGED last
        /\ UNCHANGED <<groups, groupSeq, members, rounds, payments, users>>

\* RegisterPaymentUseCase.execute: payment_repo.get_by_payer_and_round and the
\* duplicate check
RegisterPaymentCheckDuplicate(p) ==
    LET rows == RowsByPayerAndRound(payments, reqs[p].payer_id, reqs[p].round_id) IN
    /\ reqs[p].pc = "get_by_payer_and_round"
    /\ IF Cardinality(rows) > 1
       THEN last' = RegisterPaymentDone(reqs[p], "MultipleResultsFound")
            /\ reqs' = [reqs EXCEPT ![p] = Idle]
       ELSE IF rows # {}
       THEN last' = RegisterPaymentDone(reqs[p], "DuplicateEntityError")
            /\ reqs' = [reqs EXCEPT ![p] = Idle]
       ELSE reqs' = [reqs EXCEPT ![p].pc = "payment_create"] /\ UNCHANGED last
    /\ UNCHANGED <<groups, groupSeq, members, rounds, payments, users>>

\* RegisterPaymentUseCase.execute: Payment(...), confirm(), payment_repo.create
RegisterPaymentCreate(p) ==
    /\ reqs[p].pc = "payment_create"
    /\ payments' = PaymentRepoCreate(payments,
                                     NewPayment(payments, reqs[p].round_id, reqs[p].payer_id))
    /\ last' = RegisterPaymentDone(reqs[p], "ok")
    /\ reqs' = [reqs EXCEPT ![p] = Idle]
    /\ UNCHANGED <<groups, groupSeq, members, rounds, users>>

NextPayConc ==
    \/ CreateFirstGroup
    \/ CreateRound
    \/ \E p \in Procs : RegisterPaymentBegin(p)
    \/ \E p \in Procs : RegisterPaymentCheckDuplicate(p)
    \/ \E p \in Procs : RegisterPaymentCreate(p)

SpecPayConc == Init /\ [][NextPayConc]_vars

\* ------------------------------------------- get_db, the session of a request
\* Each request runs get_db around its handler.  A session has a transaction
\* (open, committed or rolled_back), the calls made on it so far, and the
\* exception that leaves get_db, if any.

\* what the handler does at the yield: it returns, it raises an Exception, or a
\* BaseException that is no Exception (asyncio.CancelledError) is thrown in
HandlerOutcomes == {"return", "Exception", "BaseException"}

\* mutant: get_db committing whatever happened at the yield
AfterYieldAlwaysCommit(outcome) == "commit"

\* get_db: the statement that runs after the yield
AfterYield(outcome) ==
    CASE outcome = "return" -> "commit"
      [] outcome = "Exception" -> "rollback"
      [] outcome = "BaseException" -> "close"

\* get_db: async with AsyncSessionLocal() as session, up to the yield
GetDb(p) ==
    /\ reqs[p] = Idle
    /\ reqs' = [reqs EXCEPT ![p] = [pc |-> "handler", outcome |-> "none", calls |-> <<>>,
                                     tx |-> "open", closed |-> FALSE, raised |-> "none"]]
    /\ UNCHANGED <<groups, groupSeq, members, rounds, payments, last, users>>

\* get_db: the yield returns or raises
HandlerFinish(p) ==
    \E outcome \in HandlerOutcomes :
        /\ reqs[p].pc = "handler"
        /\ reqs' = [reqs EXCEPT ![p].pc = AfterYield(outcome),
                                ![p].outcome = outcome,
                                ![p].raised = IF outcome = "return" THEN "none" ELSE outcome]
        /\ UNCHANGED <<groups, groupSeq, members, rounds, payments, last, users>>

\* get_db: await session.commit(), which succeeds or raises
SessionCommit(p) ==
    \E ok \in BOOLEAN :
        /\ reqs[p].pc = "commit"
        /\ reqs' = [reqs EXCEPT ![p].calls = Append(@, "commit"),
                                ![p].tx = IF ok THEN "committed" ELSE @,
                                ![p].raised = IF ok THEN @ ELSE "Exception",
                                ![p].pc = IF ok THEN "close" ELSE "rollback"]
        /\ UNCHANGED <<groups, groupSeq, members, rounds, payments, last, users>>

\* get_db: except Exception: await session.rollback(), which succeeds or raises;
\* the finally clause runs in both cases
SessionRollback(p) ==
    \E ok \in BOOLEAN :
        /\ reqs[p].pc = "rollback"
        /\ reqs' = [reqs EXCEPT ![p].calls = Append(@, "rollback"),
                                ![p].tx = IF ok /\ @ = "open" THEN "rolled_back" ELSE @,
                                ![p].raised = "Exception",
                                ![p].pc = "close"]
        /\ UNCHANGED <<groups, groupSeq, members, rounds, payments, last, users>>

\* get_db: finally: await session.close(); a transaction still open is discarded
SessionClose(p) ==
    /\ reqs[p].pc = "close"
    /\ reqs' = [reqs EXCEPT ![p].calls = Append(@, "close"),
                            ![p].tx = IF @ = "open" THEN "rolled_back" ELSE @,
                            ![p].closed = TRUE,
                            ![p].pc = "done"]
    /\ UNCHANGED <<groups, groupSeq, members, rounds, payments, last, users>>

\* get_db is left: normally, or by the exception re-raised
GetDbExit(p) ==
    /\ reqs[p].pc = "done"
    /\ last' = [op |-> "get_db", outcome |-> reqs[p].outcome, calls |-> reqs[p].calls,
                tx |-> reqs[p].tx, closed |-> reqs[p].closed, raised |-> reqs[p].raised]
    /\ reqs' = [reqs EXCEPT ![p] = Idle]
    /\ UNCHANGED <<groups, groupSeq, members, rounds, payments, users>>

NextSession ==
    \/ \E p \in Procs : GetDb(p)
    \/ \E p \in Procs : HandlerFinish(p)
    \/ \E p \in Procs : SessionCommit(p)
    \/ \E p \in Procs : SessionRollback(p)
    \/ \E p \in Procs : SessionClose(p)
    \/ \E p \in Procs : GetDbExit(p)

\* the event loop resumes every awaited session call of get_db; nothing makes a
\* request arrive or a handler finish
SpecSession ==
    /\ Init
    /\ [][NextSession]_vars
    /\ \A p \in Procs : /\ WF_vars(SessionCommit(p))
                        /\ WF_vars(SessionRollback(p))
                        /\ WF_vars(SessionClose(p))

\* --------------------------------------------- the groups router, over HTTP
\* A token string is the empty string, or a JWT: its "sub" and "type" claims,
\* whether it was signed with settings.SECRET_KEY, and whether its "exp" has
\* passed when it is presented.
EmptyToken == [chars |-> 0]
Jwt(sub, type) == [sub |-> sub, type |-> type, signed |-> TRUE, expired |-> FALSE]

\* TokenManager.create_access_token: "sub" is str(subject)
CreateAccessToken(subject) == Jwt(Some(Str(subject)), "access")

\* TokenManager.create_refresh_token
CreateRefreshToken(subject) == Jwt(Some(Str(subject)), "refresh")

\* TokenManager.decode_token: None stands for the JWTError jwt.decode raises,
\* Some(claims) for the dict it returns
DecodeToken(token) ==
    IF token = EmptyToken THEN None
    ELSE IF ~token.signed \/ token.expired THEN None
    ELSE Some([sub |-> token.sub, type |-> token.type])

\* the tokens of subject that are not an access token in force: forged, expired,
\* without a subject, of type "refresh", of a type the program never issues
RejectedTokens(subject) ==
    {[CreateAccessToken(subject) EXCEPT !.signed = FALSE],
     [CreateAccessToken(subject) EXCEPT !.expired = TRUE],
     Jwt(None, "access"),
     CreateRefreshToken(subject),
     Jwt(Some(Str(subject)), "reset"),
     EmptyToken}

\* what a request can carry as its Authorization header: nothing, a token issued
\* to a user, or a token the dependency has to reject
NoCredentials == [type |-> "none"]
Credentials ==
    {NoCredentials}
        \cup {CreateAccessToken(Uuid(u)) : u \in 1..NumRequesters}
        \cup {CreateRefreshToken(Uuid(u)) : u \in 1..NumRequesters}
        \cup RejectedTokens(Uuid(1))

\* the one HTTPException get_current_user_id builds
CredentialsException ==
    [status_code |-> 401, detail |-> "Could not validate credentials"]

\* mutant: get_current_user_id without the token_type test
GetCurrentUserIdAnyType(credentials) ==
    IF credentials = NoCredentials THEN None
    ELSE LET payload == DecodeToken(credentials) IN
         IF IsNone(payload) THEN None
         ELSE IF IsNone(payload[1].sub) THEN None
         ELSE Some(payload[1].sub[1])

\* get_current_user_id: None stands for the credentials_exception it raises,
\* Some(id) for the value it returns, the "sub" claim as the str it is
GetCurrentUserId(credentials) ==
    IF credentials = NoCredentials THEN None
    ELSE LET payload == DecodeToken(credentials) IN
         IF IsNone(payload) THEN None
         ELSE IF IsNone(payload[1].sub) \/ payload[1].type # "access" THEN None
         ELSE Some(payload[1].sub[1])

\* the status the groups router answers a use case's outcome with
GroupsHttpStatus(result, success) ==
    CASE result = "ok" -> success
      [] result = "NotFoundError" -> 404
      [] result = "ForbiddenError" -> 403
      [] OTHER -> 500

\* the record a router leaves: the status, and the user the token was issued to
HttpDone(op, credentials, gid, status) ==
    [op |-> op, status |-> status, group_id |-> gid, credentials |-> credentials]

\* create_group (POST /groups/)
create_group ==
    \E credentials \in Credentials, payload \in [max_members : Caps, name : OneName] :
        LET user == GetCurrentUserId(credentials) IN
        IF IsNone(user)
        THEN /\ last' = HttpDone("create_group", credentials, 0, 401)
             /\ UNCHANGED <<groups, groupSeq, members, rounds, payments, reqs, users>>
        ELSE /\ groupSeq < MaxGroups
             /\ groupSeq' = groupSeq + 1
             /\ groups' = GroupRepoCreate(groups, groupSeq + 1, NewGroup(payload, user[1]))
             /\ last' = HttpDone("create_group", credentials, groupSeq + 1, 201)
             /\ UNCHANGED <<members, rounds, payments, reqs, users>>

\* update_group (PATCH /groups/{group_id})
update_group ==
    \E credentials \in Credentials, gid \in GroupIds,
       payload \in [max_members : {None} \cup {Some(c) : c \in Caps}, name : {None}] :
        LET user == GetCurrentUserId(credentials) IN
        IF IsNone(user)
        THEN /\ last' = HttpDone("update_group", credentials, gid, 401)
             /\ UNCHANGED <<groups, groupSeq, members, rounds, payments, reqs, users>>
        ELSE LET res == UpdateGroupResult(groups, gid, user[1]) IN
             /\ groups' = IF res = "ok"
                          THEN GroupRepoUpdate(groups, gid,
                                               UpdateGroupFields(groups[gid], payload))
                          ELSE groups
             /\ last' = HttpDone("update_group", credentials, gid, GroupsHttpStatus(res, 200))
             /\ UNCHANGED <<groupSeq, members, rounds, payments, reqs, users>>

\* delete_group (DELETE /groups/{group_id})
delete_group ==
    \E credentials \in Credentials, gid \in GroupIds :
        LET user == GetCurrentUserId(credentials) IN
        IF IsNone(user)
        THEN /\ last' = HttpDone("delete_group", credentials, gid, 401)
             /\ UNCHANGED <<groups, groupSeq, members, rounds, payments, reqs, users>>
        ELSE LET res == DeleteGroupResult(groups, gid, user[1]) IN
             /\ groups' = IF res = "ok" THEN GroupRepoDelete(groups, gid) ELSE groups
             /\ last' = HttpDone("delete_group", credentials, gid, GroupsHttpStatus(res, 204))
             /\ UNCHANGED <<groupSeq, members, rounds, payments, reqs, users>>

NextHttp ==
    \/ create_group
    \/ update_group
    \/ delete_group

SpecHttp == Init /\ [][NextHttp]_vars

\* ------------------------------------------------------------ the auth module
\* The users table is a sequence: a user's id is its index, users[i] is
\* Some(row) while the row is stored and None once it was deleted, so a deleted
\* user's id is never issued again.
UserIds == 1..MaxUsers
Emails == 1..NumEmails
Passwords == 1..NumPasswords

\* PasswordManager.hash / PasswordManager.verify (bcrypt through passlib)
Hash(plain_password) == [scheme |-> "bcrypt", secret |-> plain_password]
Verify(plain_password, hashed_password) ==
    hashed_password.scheme = "bcrypt" /\ hashed_password.secret = plain_password

\* the ids of the stored rows
StoredUsers(us) == {i \in DOMAIN us : ~IsNone(us[i])}

\* SQLAlchemyUserRepository.email_exists
EmailExists(us, email) == \E i \in StoredUsers(us) : us[i][1].email = email

\* SQLAlchemyUserRepository.get_by_email: None or Some(id)
GetByEmail(us, email) ==
    IF EmailExists(us, email)
    THEN Some(CHOOSE i \in StoredUsers(us) : us[i][1].email = email)
    ELSE None

\* uuid.UUID(user_id) on a str the program issued
ToUuid(user_id) == [ty |-> "UUID", v |-> user_id.v]

\* SQLAlchemyUserRepository.get_by_id: None or Some(id)
GetById(us, user_id) ==
    IF user_id.ty = "UUID" /\ user_id.v \in StoredUsers(us) THEN Some(user_id.v) ELSE None

\* User(...) as RegisterUseCase builds it: is_active defaults to True
NewUser(email, password) ==
    [email |-> email, hashed_password |-> Hash(password), is_active |-> TRUE]

\* mutant: SQLAlchemyUserRepository.create on a table whose email column is not unique
UserInsertResultNotUnique(us, user) == "ok"

\* the INSERT of SQLAlchemyUserRepository.create against the unique index on email
UserInsertResult(us, user) ==
    IF EmailExists(us, user.email) THEN "IntegrityError" ELSE "ok"

\* SQLAlchemyUserRepository.create, once committed
UserRepoCreate(us, user) == Append(us, Some(user))

\* User.deactivate, SQLAlchemyUserRepository.update
UserRepoDeactivate(us, i) == [us EXCEPT ![i] = Some([@[1] EXCEPT !.is_active = FALSE])]

\* SQLAlchemyUserRepository.delete
UserRepoDelete(us, i) == [us EXCEPT ![i] = None]

\* mutant: RegisterUseCase.execute without the email_exists check
RegisterResultNoCheck(us, email) == "ok"

\* RegisterUseCase.execute, the check
RegisterResult(us, email) ==
    IF EmailExists(us, email) THEN "DuplicateEntityError" ELSE "ok"

\* mutant: LoginUseCase.execute testing is_active before the password
LoginResultActiveFirst(us, email, password) ==
    LET user == GetByEmail(us, email) IN
    IF IsNone(user) THEN "InvalidCredentialsError"
    ELSE IF ~us[user[1]][1].is_active THEN "InactiveUserError"
    ELSE IF ~Verify(password, us[user[1]][1].hashed_password) THEN "InvalidCredentialsError"
    ELSE "ok"

\* LoginUseCase.execute, the checks
LoginResult(us, email, password) ==
    LET user == GetByEmail(us, email) IN
    IF IsNone(user) THEN "InvalidCredentialsError"
    ELSE IF ~Verify(password, us[user[1]][1].hashed_password) THEN "InvalidCredentialsError"
    ELSE IF ~us[user[1]][1].is_active THEN "InactiveUserError"
    ELSE "ok"

\* mutant: TokenResponse carrying the access token twice
TokenResponseAccessTwice(subject) ==
    [access_token |-> CreateAccessToken(subject), refresh_token |-> CreateAccessToken(subject)]

\* TokenResponse(access_token=create_access_token(subject), refresh_token=create_refresh_token(subject))
TokenResponse(subject) ==
    [access_token |-> CreateAccessToken(subject), refresh_token |-> CreateRefreshToken(subject)]

\* the routers' except clauses of /auth/register and /auth/login; UUID("")
\* raising ValueError and an IntegrityError are not caught
AuthHttpStatus(result, success) ==
    CASE result = "ok" -> success
      [] result = "DuplicateEntityError" -> 409
      [] result = "InvalidCredentialsError" -> 401
      [] result = "InactiveUserError" -> 403
      [] result = "HTTPException401" -> 401
      [] OTHER -> 500

\* mutant: RefreshTokenUseCase.execute without the test of the "type" claim
RefreshTokenResultAnyType(us, refresh_token) ==
    LET token_data == DecodeToken(refresh_token) IN
    IF IsNone(token_data) THEN "HTTPException401"
    ELSE IF IsNone(token_data[1].sub) THEN "ValueError"
    ELSE LET user == GetById(us, ToUuid(token_data[1].sub[1])) IN
         IF IsNone(user) THEN "HTTPException401"
         ELSE IF ~us[user[1]][1].is_active THEN "HTTPException401"
         ELSE "ok"

\* RefreshTokenUseCase.execute, the checks; token_data.get("sub", "") of a token
\* without a subject is "", and UUID("") raises ValueError
RefreshTokenResult(us, refresh_token) ==
    LET token_data == DecodeToken(refresh_token) IN
    IF IsNone(token_data) THEN "HTTPException401"
    ELSE IF token_data[1].type # "refresh" THEN "HTTPException401"
    ELSE IF IsNone(token_data[1].sub) THEN "ValueError"
    ELSE LET user == GetById(us, ToUuid(token_data[1].sub[1])) IN
         IF IsNone(user) THEN "HTTPException401"
         ELSE IF ~us[user[1]][1].is_active THEN "HTTPException401"
         ELSE "ok"

\* get_current_user_id, the exception each failing branch raises (None when it returns)
GetCurrentUserIdRaises(credentials) ==
    IF credentials = NoCredentials THEN Some(CredentialsException)
    ELSE LET payload == DecodeToken(credentials) IN
         IF IsNone(payload) THEN Some(CredentialsException)
         ELSE IF IsNone(payload[1].sub) \/ payload[1].type # "access"
              THEN Some(CredentialsException)
         ELSE None

\* the token strings a client can send to /auth/refresh: the tokens issued to the
\* users registered so far, in force, expired or re-signed with another key, a
\* refresh token without a subject, and the empty string
RefreshInputs(us) ==
    {CreateRefreshToken(Uuid(i)) : i \in DOMAIN us}
        \cup {CreateAccessToken(Uuid(i)) : i \in DOMAIN us}
        \cup {[CreateRefreshToken(Uuid(i)) EXCEPT !.expired = TRUE] : i \in DOMAIN us}
        \cup {[CreateRefreshToken(Uuid(i)) EXCEPT !.signed = FALSE] : i \in DOMAIN us}
        \cup {Jwt(None, "refresh"), EmptyToken}

\* POST /auth/register: RegisterUseCase.execute and the commit of get_db, no
\* other request in between
Register ==
    \E email \in Emails, password \in Passwords :
        LET res == RegisterResult(users, email) IN
        /\ res = "ok" => Len(users) < MaxUsers
        /\ users' = IF res = "ok" THEN UserRepoCreate(users, NewUser(email, password))
                    ELSE users
        /\ last' = [op |-> "Register", result |-> res, email |-> email,
                    status |-> AuthHttpStatus(res, 201)]
        /\ UNCHANGED <<groups, groupSeq, members, rounds, payments, reqs>>

\* POST /auth/login: LoginUseCase.execute
Login ==
    \E email \in Emails, password \in Passwords :
        LET res == LoginResult(users, email, password) IN
        /\ last' = [op |-> "Login", result |-> res, email |-> email, password |-> password,
                    status |-> AuthHttpStatus(res, 200),
                    tokens |-> IF res = "ok"
                               THEN Some(TokenResponse(Str(Uuid(GetByEmail(users, email)[1]))))
                               ELSE None]
        /\ UNCHANGED <<groups, groupSeq, members, rounds, payments, reqs, users>>

\* POST /auth/refresh: RefreshTokenUseCase.execute
RefreshToken ==
    \E refresh_token \in RefreshInputs(users) :
        LET res == RefreshTokenResult(users, refresh_token) IN
        /\ last' = [op |-> "RefreshToken", result |-> res, refresh_token |-> refresh_token,
                    status |-> AuthHttpStatus(res, 200),
                    tokens |-> IF res = "ok"
                               THEN Some(TokenResponse(DecodeToken(refresh_token)[1].sub[1]))
                               ELSE None]
        /\ UNCHANGED <<groups, groupSeq, members, rounds, payments, reqs, users>>

\* POST /auth/logout: a protected endpoint that does nothing but authenticate
logout ==
    \E credentials \in Credentials :
        LET user == GetCurrentUserId(credentials) IN
        /\ last' = [op |-> "logout", credentials |-> credentials, user |-> user,
                    response |-> IF IsNone(user)
                                 THEN GetCurrentUserIdRaises(credentials)[1]
                                 ELSE [status_code |-> 204, detail |-> ""]]
        /\ UNCHANGED <<groups, groupSeq, members, rounds, payments, reqs, users>>

\* an administrator deactivating an account: User.deactivate and repository update
DeactivateUser ==
    \E i \in StoredUsers(users) :
        /\ users[i][1].is_active
        /\ users' = UserRepoDeactivate(users, i)
        /\ last' = [op |-> "DeactivateUser", user_id |-> i]
        /\ UNCHANGED <<groups, groupSeq, members, rounds, payments, reqs>>

\* an administrator removing an account: repository delete
DeleteUser ==
    \E i \in StoredUsers(users) :
        /\ users' = UserRepoDelete(users, i)
        /\ last' = [op |-> "DeleteUser", user_id |-> i]
        /\ UNCHANGED <<groups, groupSeq, members, rounds, payments, reqs>>

NextAuth ==
    \/ Register
    \/ Login
    \/ RefreshToken
    \/ logout
    \/ DeactivateUser
    \/ DeleteUser

SpecAuth == Init /\ [][NextAuth]_vars

\* ------------------------------- Register, one awaited call at a time
\* Each request has its own session and transaction (get_db).  email_exists
\* reads what is committed; create flushes the INSERT inside the transaction;
\* get_db commits after the router returned.  The unique index on users.email
\* makes an INSERT wait for an uncommitted row with the same email and fail
\* with IntegrityError once that row is committed.

\* the record a finished Register leaves
RegisterDone(r, result) ==
    [op |-> "Register", result |-> result, email |-> r.email,
     status |-> AuthHttpStatus(result, 201)]

\* the requests that hold an uncommitted users row
Uncommitted(rs) == {q \in Procs : rs[q].pc = "commit"}

\* RegisterUseCase.execute: user_repo.email_exists and the duplicate check
RegisterBegin(p) ==
    \E email \in Emails, password \in Passwords :
        LET r == [pc |-> "create_user", email |-> email, password |-> password] IN
        /\ reqs[p] = Idle
        /\ IF RegisterResult(users, email) # "ok"
           THEN last' = RegisterDone(r, RegisterResult(users, email)) /\ UNCHANGED reqs
           ELSE /\ Len(users) + Cardinality({q \in Procs : reqs[q] # Idle}) < MaxUsers
                /\ reqs' = [reqs EXCEPT ![p] = r]
                /\ UNCHANGED last
        /\ UNCHANGED <<groups, groupSeq, members, rounds, payments, users>>

\* RegisterUseCase.execute: user_repo.create, the INSERT flushed
RegisterCreate(p) ==
    LET res == UserInsertResult(users, NewUser(reqs[p].email, reqs[p].password)) IN
    /\ reqs[p].pc = "create_user"
    /\ \A q \in Uncommitted(reqs) : reqs[q].email # reqs[p].email
    /\ IF res = "ok"
       THEN reqs' = [reqs EXCEPT ![p].pc = "commit"] /\ UNCHANGED last
       ELSE reqs' = [reqs EXCEPT ![p] = Idle] /\ last' = RegisterDone(reqs[p], res)
    /\ UNCHANGED <<groups, groupSeq, members, rounds, payments, users>>

\* get_db: session.commit() after the router returned
RegisterCommit(p) ==
    /\ reqs[p].pc = "commit"
    /\ users' = UserRepoCreate(users, NewUser(reqs[p].email, reqs[p].password))
    /\ last' = RegisterDone(reqs[p], "ok")
    /\ reqs' = [reqs EXCEPT ![p] = Idle]
    /\ UNCHANGED <<groups, groupSeq, members, rounds, payments>>

NextRegister ==
    \/ \E p \in Procs : RegisterBegin(p)
    \/ \E p \in Procs : RegisterCreate(p)
    \/ \E p \in Procs : RegisterCommit(p)
    \/ DeleteUser

SpecRegister == Init /\ [][NextRegister]_vars

\* ================================================================ claims
HostGatedOps ==
    {"UpdateGroup", "DeleteGroup", "AddMember", "RemoveMember", "CreateRound",
     "UpdateRoundStatus"}

\* the request recorded in l names a stored group of gs and a requester that is
\* not its host
ByNonHost(l, gs) ==
    /\ l.group_id \in DOMAIN gs
    /\ gs[l.group_id].host_id # l.requester_id

\* the request recorded in l names a stored group of gs and its host as requester
ByHost(l, gs) ==
    /\ l.group_id \in DOMAIN gs
    /\ gs[l.group_id].host_id = l.requester_id

\* C1: UpdateGroup and DeleteGroup on a stored group by a requester that is not
\* its host fail with Forbidden and leave the group store as it was.
C1_NonHostGroupMutationForbidden ==
    [][(last'.op \in {"UpdateGroup", "DeleteGroup"} /\ ByNonHost(last', groups))
          => (last'.result = "ForbiddenError" /\ groups' = groups)]_vars

\* a non-host has just asked to lower max_members of a stored group
C1_Witness ==
    /\ last.op = "UpdateGroup"
    /\ ByNonHost(last, groups)
    /\ last.result = "ForbiddenError"
    /\ ~IsNone(last.payload.max_members)
    /\ last.payload.max_members[1] # groups[last.group_id].max_members

\* C2: AddMember, RemoveMember, CreateRound and UpdateRoundStatus on a stored
\* group by a requester that is not its host fail with Forbidden and leave the
\* member and round stores as they were.
C2_NonHostMemberRoundForbidden ==
    [][(last'.op \in {"AddMember", "RemoveMember", "CreateRound", "UpdateRoundStatus"}
            /\ ByNonHost(last', groups))
          => (last'.result = "ForbiddenError" /\ members' = members /\ rounds' = rounds)]_vars

\* a non-host has just asked to remove a stored member of the group
C2_Witness ==
    /\ last.op = "RemoveMember"
    /\ ByNonHost(last, groups)
    /\ last.result = "ForbiddenError"
    /\ \E m \in members : m.id = last.member_id /\ m.group_id = last.group_id

\* C3 as claimed: a member row of a stored group disappears, and the status of a
\* round of a stored group changes, only in a step requested by that group's host.
C3_OnlyOwnHostMutates ==
    [][/\ \A m \in members \ members' :
             m.group_id \in DOMAIN groups
                => groups[m.group_id].host_id = last'.requester_id
       /\ \A rid \in DOMAIN rounds :
             (rounds'[rid].status # rounds[rid].status /\ rounds[rid].group_id \in DOMAIN groups)
                => groups[rounds[rid].group_id].host_id = last'.requester_id]_vars

\* C4 as claimed: an absent group, member or round gives NotFound whoever asks.
C4_AbsentAlwaysNotFound ==
    [][/\ (last'.op \in HostGatedOps \cup {"GetGroup", "ListMembers", "ListRounds"}
              /\ last'.group_id \notin DOMAIN groups)
            => last'.result = "NotFoundError"
       /\ (last'.op = "RemoveMember" /\ ~MemberExists(members, last'.member_id))
            => last'.result = "NotFoundError"
       /\ (last'.op \in {"UpdateRoundStatus", "GetRound", "ListPayments", "RegisterPayment"}
              /\ last'.round_id \notin DOMAIN rounds)
            => last'.result = "NotFoundError"]_vars

\* C4 amended: an absent group gives NotFound whoever asks; RemoveMember and
\* UpdateRoundStatus resolve the member and the round after the host check, so
\* on a stored group an absent member or round gives NotFound to the host and
\* Forbidden to anyone else; the use cases without a host check give NotFound.
C4_GroupFirstThenHostThenEntity ==
    [][/\ (last'.op \in HostGatedOps \cup {"GetGroup", "ListMembers", "ListRounds"}
              /\ last'.group_id \notin DOMAIN groups)
            => last'.result = "NotFoundError"
       /\ (last'.op = "RemoveMember" /\ ~MemberExists(members, last'.member_id)
              /\ last'.group_id \in DOMAIN groups)
            => last'.result = IF ByHost(last', groups) THEN "NotFoundError"
                              ELSE "ForbiddenError"
       /\ (last'.op = "UpdateRoundStatus" /\ last'.round_id \notin DOMAIN rounds
              /\ last'.group_id \in DOMAIN groups)
            => last'.result = IF ByHost(last', groups) THEN "NotFoundError"
                              ELSE "ForbiddenError"
       /\ (last'.op \in {"GetRound", "ListPayments", "RegisterPayment"}
              /\ last'.round_id \notin DOMAIN rounds)
            => last'.result = "NotFoundError"]_vars

\* a non-host has just asked for a status change of a round that is not stored
C4_Witness ==
    /\ last.op = "UpdateRoundStatus"
    /\ ByNonHost(last, groups)
    /\ last.round_id \notin DOMAIN rounds
    /\ last.result = "ForbiddenError"

\* C5 as claimed: every stored group has at most max_members active members.
C5_ActiveCountWithinMax ==
    \A gid \in DOMAIN groups : CountActive(members, gid) <= groups[gid].max_members

\* the step is a second AddMember of the pair just admitted, asked by the host
SecondAddByHost ==
    /\ last.op = "AddMember"
    /\ last.result = "ok"
    /\ last'.op = "AddMember"
    /\ last'.group_id = last.group_id
    /\ last'.user_id = last.user_id
    /\ ByHost(last', groups)

\* C6 as claimed: the second AddMember of the same pair yields Duplicate and
\* creates no row.
C6_SecondAddIsDuplicate ==
    [][SecondAddByHost => (last'.result = "DuplicateEntityError" /\ members' = members)]_vars

\* C6 amended: the second AddMember of the same pair creates no row; it yields
\* Duplicate when the group still has room and the capacity error when the first
\* AddMember filled the group.
C6_SecondAddDuplicateOrFull ==
    [][SecondAddByHost =>
          /\ members' = members
          /\ last'.result =
                IF CountActive(members, last'.group_id) >= groups[last'.group_id].max_members
                THEN "ValueError" ELSE "DuplicateEntityError"]_vars

\* the host has just been refused a user whose one row is stored, in a group with room
C6_Witness ==
    /\ last.op = "AddMember"
    /\ ByHost(last, groups)
    /\ last.result = "DuplicateEntityError"
    /\ Cardinality(RowsByUserAndGroup(members, last.user_id, last.group_id)) = 1
    /\ CountActive(members, last.group_id) < groups[last.group_id].max_members

\* C7: AddMember by the host on a stored group whose active count has reached
\* max_members fails with ValueError, which the router answers with 400, and
\* creates no member row.
C7_FullGroupRejects ==
    [][(last'.op = "AddMember" /\ ByHost(last', groups)
            /\ CountActive(members, last'.group_id) >= groups[last'.group_id].max_members)
          => /\ last'.result = "ValueError"
             /\ HttpStatus(last'.result) = 400
             /\ members' = members]_vars

\* the host has just been refused a user that is not a member, the group being full
C7_Witness ==
    /\ last.op = "AddMember"
    /\ ByHost(last, groups)
    /\ last.result = "ValueError"
    /\ RowsByUserAndGroup(members, last.user_id, last.group_id) = {}
    /\ CountActive(members, last.group_id) = groups[last.group_id].max_members

\* C8: at most one payment row is stored per (payer_id, round_id), and a
\* RegisterPayment for a pair that has a row yields Duplicate and creates none.
C8_OnePaymentPerPayerAndRound ==
    [][/\ \A rid \in RoundIds, payer \in Users :
             Cardinality(RowsByPayerAndRound(payments', payer, rid)) <= 1
       /\ (last'.op = "RegisterPayment"
              /\ RowsByPayerAndRound(payments, last'.payer_id, last'.round_id) # {})
            => (last'.result = "DuplicateEntityError" /\ payments' = payments)]_vars

\* a payment of a pair that has a row has just been refused, others being stored too
C8_Witness ==
    /\ last.op = "RegisterPayment"
    /\ last.result = "DuplicateEntityError"
    /\ Cardinality(RowsByPayerAndRound(payments, last.payer_id, last.round_id)) = 1
    /\ Cardinality(payments) > 1

\* C9: a request that has passed its capacity and duplicate checks writes its
\* row whatever other requests have written since its reads, so that two
\* interleaved AddMember requests both write; a group then holds more active
\* members than max_members, or two rows of one (user_id, group_id).
C9_PassedChecksAlwaysWrite ==
    [][\A p \in Procs :
          (reqs[p].pc = "create" /\ reqs'[p] = Idle)
             => /\ last'.result = "ok"
                /\ Cardinality(members') = Cardinality(members) + 1
                /\ \E m \in members' \ members :
                      m.group_id = reqs[p].group_id /\ m.user_id = reqs[p].user_id]_vars

\* both requests are done, the group holds more active members than max_members
\* and two rows of one user
C9_Witness ==
    /\ \A p \in Procs : reqs[p] = Idle
    /\ \E gid \in DOMAIN groups :
          /\ CountActive(members, gid) > groups[gid].max_members
          /\ \E uid \in HostUsers : Cardinality(RowsByUserAndGroup(members, uid, gid)) > 1

\* C10 as claimed: update_group and delete_group, called with an access token of
\* the user whose access token created the stored group, answer 200 and 204.
C10_HostCanUpdateAndDelete ==
    [][(/\ last'.op \in {"update_group", "delete_group"}
        /\ last'.group_id \in DOMAIN groups
        /\ last'.credentials \in {CreateAccessToken(Uuid(u)) : u \in 1..NumRequesters}
        /\ groups[last'.group_id].host_id.v = last'.credentials.sub[1].v)
          => last'.status \in {200, 204}]_vars

\* C11: in every reachable state, whatever the interleaving of the Register
\* requests, no two stored users have the same email.
C11_EmailUnique ==
    \A i, j \in StoredUsers(users) : users[i][1].email = users[j][1].email => i = j

\* a Register that passed email_exists was beaten to the INSERT by another one
C11_Witness ==
    /\ last.op = "Register" /\ last.result = "IntegrityError"
    /\ EmailExists(users, last.email)

\* C12: every Register whose email is in the user store answers
\* DuplicateEntityError, HTTP 409, and leaves the user store as it was.
C12_PresentEmailIsDuplicate ==
    [][(last'.op = "Register" /\ EmailExists(users, last'.email))
          => /\ last'.result = "DuplicateEntityError"
             /\ last'.status = 409
             /\ users' = users]_vars

C12_Witness ==
    /\ last.op = "Register" /\ last.result = "DuplicateEntityError"
    /\ Len(users) = 1 /\ EmailExists(users, last.email)

\* C13: Login answers InactiveUserError exactly when the email resolves to a
\* stored user, the password is the one registered and the user is inactive; an
\* unknown email or another password answers InvalidCredentialsError, also for
\* an inactive user; an inactive user gets no tokens.
C13_InactiveIffKnownMatchingInactive ==
    [][last'.op = "Login" =>
          LET user == GetByEmail(users, last'.email)
              known == ~IsNone(user)
              matches == known /\ users[user[1]][1].hashed_password.secret = last'.password
              inactive == known /\ ~users[user[1]][1].is_active
          IN /\ last'.result = "InactiveUserError" <=> (matches /\ inactive)
             /\ (~known \/ ~matches) => last'.result = "InvalidCredentialsError"
             /\ inactive => IsNone(last'.tokens)]_vars

C13_Witness ==
    /\ last.op = "Login" /\ last.result = "InactiveUserError" /\ last.status = 403
    /\ \E i \in StoredUsers(users) :
          /\ users[i][1].email = last.email
          /\ ~users[i][1].is_active
          /\ users[i][1].hashed_password = Hash(last.password)

\* C14: a Login with the email and password of an active user u returns two
\* distinct non-empty tokens; the first decodes to u's id as subject (the str
\* of the UUID) and type "access", the second to the same subject and type
\* "refresh".
C14_LoginTokensDecodeToUser ==
    [][(/\ last'.op = "Login"
        /\ \E i \in StoredUsers(users) :
              /\ users[i][1].email = last'.email
              /\ users[i][1].hashed_password.secret = last'.password
              /\ users[i][1].is_active)
          => /\ last'.result = "ok" /\ last'.status = 200
             /\ ~IsNone(last'.tokens)
             /\ LET t == last'.tokens[1]
                    u == CHOOSE i \in StoredUsers(users) : users[i][1].email = last'.email
                    a == DecodeToken(t.access_token)
                    r == DecodeToken(t.refresh_token)
                IN /\ t.access_token # t.refresh_token
                   /\ t.access_token # EmptyToken /\ t.refresh_token # EmptyToken
                   /\ ~IsNone(a) /\ ~IsNone(r)
                   /\ a[1].type = "access" /\ r[1].type = "refresh"
                   /\ a[1].sub = Some(Str(Uuid(u))) /\ r[1].sub = Some(Str(Uuid(u)))
                   /\ ToUuid(a[1].sub[1]) = Uuid(u) /\ ToUuid(r[1].sub[1]) = Uuid(u)]_vars

\* the second registered user logs in
C14_Witness ==
    /\ last.op = "Login" /\ last.result = "ok"
    /\ Len(users) = 2
    /\ users[2] # None /\ users[2][1].email = last.email
    /\ last.tokens[1].refresh_token = CreateRefreshToken(Uuid(2))

\* the bearer credentials get_current_user_id is to accept
Authentic(c) ==
    /\ c # NoCredentials /\ c # EmptyToken
    /\ c.signed /\ ~c.expired
    /\ ~IsNone(c.sub)
    /\ c.type = "access"

\* C15: a protected endpoint authenticates the request if and only if the token
\* is signed with the key, unexpired, carries a subject and has type "access",
\* and then as that subject; every other request gets the same 401 response.
C15_AccessTokenOnly ==
    [][last'.op = "logout" =>
          /\ ~IsNone(last'.user) <=> Authentic(last'.credentials)
          /\ Authentic(last'.credentials)
                => last'.user = last'.credentials.sub /\ last'.response.status_code = 204
          /\ ~Authentic(last'.credentials) => last'.response = CredentialsException]_vars

\* a refresh token in force presented to a protected endpoint
C15_Witness ==
    /\ last.op = "logout"
    /\ last.credentials = CreateRefreshToken(Uuid(1))
    /\ last.response.status_code = 401

\* the refresh tokens RefreshTokenUseCase is to accept
Refreshable(us, t) ==
    /\ t # EmptyToken
    /\ t.signed /\ ~t.expired
    /\ t.type = "refresh"
    /\ ~IsNone(t.sub)
    /\ t.sub[1].v \in StoredUsers(us)
    /\ us[t.sub[1].v][1].is_active

\* the rejections C16 lists: an access token, an invalid or expired token, a
\* subject that is not stored or is inactive
RefreshRejected(us, t) ==
    \/ t = EmptyToken
    \/ ~t.signed \/ t.expired
    \/ t.type = "access"
    \/ /\ ~IsNone(t.sub)
       /\ \/ t.sub[1].v \notin StoredUsers(us)
          \/ ~us[t.sub[1].v][1].is_active

\* C16: Refresh issues a token pair exactly for a signed, unexpired token of
\* type "refresh" whose subject is a stored active user, both new tokens with
\* the presented token's subject; an access token, an invalid or expired token,
\* a subject not stored or inactive get 401 and no tokens.
C16_RefreshOnlyForActiveSubject ==
    [][last'.op = "RefreshToken" =>
          LET t == last'.refresh_token IN
          /\ ~IsNone(last'.tokens) <=> Refreshable(users, t)
          /\ ~IsNone(last'.tokens)
                => /\ last'.status = 200
                   /\ DecodeToken(last'.tokens[1].access_token) =
                         Some([sub |-> t.sub, type |-> "access"])
                   /\ DecodeToken(last'.tokens[1].refresh_token) =
                         Some([sub |-> t.sub, type |-> "refresh"])
          /\ RefreshRejected(users, t) => last'.status = 401 /\ IsNone(last'.tokens)]_vars

\* a refresh token in force whose user was deactivated after it was issued
C16_Witness ==
    /\ last.op = "RefreshToken" /\ last.status = 401
    /\ \E i \in StoredUsers(users) :
          /\ last.refresh_token = CreateRefreshToken(Uuid(i))
          /\ ~users[i][1].is_active

\* C17: every stored payment is confirmed with paid_at set; a RegisterPayment
\* that succeeds adds one payment carrying the request's round_id and payer_id,
\* and no operation changes or removes a stored payment.
C17_PaymentsConfirmedAsRequested ==
    /\ [](\A p \in payments : p.status = "confirmed" /\ ~IsNone(p.paid_at))
    /\ [][/\ payments \subseteq payments'
          /\ payments' # payments
                => /\ last'.op = "RegisterPayment" /\ last'.result = "ok"
                   /\ \E p \in payments' :
                         /\ payments' \ payments = {p}
                         /\ p.round_id = last'.round_id
                         /\ p.payer_id = last'.payer_id]_vars

\* two payers have paid into a round that has since been completed
C17_Witness ==
    /\ \E p, q \in payments : p.payer_id # q.payer_id /\ p.round_id = q.round_id
    /\ \E rid \in DOMAIN rounds : rounds[rid].status = "completed"

\* the requester ids a caller of RegisterPayment can have: a uuid.UUID, or the
\* str the router passes
AnyRequester == Requesters \cup {Str(r) : r \in Requesters}

\* C18: the outcome of RegisterPayment and the payments it leaves are the same
\* for every requester_id: any authenticated caller registers a payment for any
\* payer_id.
C18_RequesterIrrelevant ==
    [][last'.op = "RegisterPayment" =>
          \A r \in AnyRequester :
             LET res == RegisterPaymentResult(rounds, payments, last'.round_id,
                                              last'.payer_id, r) IN
             /\ res = last'.result
             /\ payments' = IF res = "ok"
                            THEN PaymentRepoCreate(payments,
                                     NewPayment(payments, last'.round_id, last'.payer_id))
                            ELSE payments]_vars

\* a payment registered by a requester who is not the payer
C18_Witness ==
    /\ last.op = "RegisterPayment" /\ last.result = "ok"
    /\ last.requester_id.v # last.payer_id
    /\ \E p \in payments : p.payer_id = last.payer_id /\ p.round_id = last.round_id

\* C19: RegisterPayment for an existing round and a payer without a payment in
\* it succeeds and stores the payment, whatever the round's status.
C19_AnyRoundStatusAccepts ==
    [][(/\ last'.op = "RegisterPayment"
        /\ RoundExists(rounds, last'.round_id)
        /\ RowsByPayerAndRound(payments, last'.payer_id, last'.round_id) = {})
          => /\ last'.result = "ok"
             /\ RowsByPayerAndRound(payments', last'.payer_id, last'.round_id) # {}]_vars

\* payments accepted by a round that is not in progress
C19_Witness ==
    /\ last.op = "RegisterPayment" /\ last.result = "ok"
    /\ rounds[last.round_id].status \in {"completed", "skipped"}

\* C20: UpdateRoundStatus by the host of an existing group, on an existing
\* round, with a string that is no RoundStatus value raises ValueError, which
\* the router answers with 400, and leaves the rounds as they were.
C20_UnknownStatusRejected ==
    [][(/\ last'.op = "UpdateRoundStatus"
        /\ GroupExists(groups, last'.group_id)
        /\ groups[last'.group_id].host_id = last'.requester_id
        /\ RoundExists(rounds, last'.round_id)
        /\ last'.new_status \notin {"pending", "in_progress", "completed", "skipped"})
          => /\ last'.result = "ValueError"
             /\ HttpStatus(last'.result) = 400
             /\ rounds' = rounds]_vars

C20_Witness ==
    /\ last.op = "UpdateRoundStatus" /\ last.result = "ValueError"
    /\ last.new_status = "bogus"
    /\ last.round_id \in DOMAIN rounds
    /\ rounds[last.round_id].status = "in_progress"

\* C21 as claimed: a round whose status is completed or skipped keeps that
\* status in every later state.
C21_CompletedSkippedTerminal ==
    [][\A rid \in DOMAIN rounds :
          rounds[rid].status \in {"completed", "skipped"}
             => rid \in DOMAIN rounds' /\ rounds'[rid].status = rounds[rid].status]_vars

\* the last step was UpdateRoundStatus by the host of an existing group on an
\* existing round
HostUpdatesRound(l, gs, rs) ==
    /\ l.op = "UpdateRoundStatus"
    /\ GroupExists(gs, l.group_id)
    /\ gs[l.group_id].host_id = l.requester_id
    /\ RoundExists(rs, l.round_id)

\* C23: UpdateRoundStatus by the host, on an existing round in any status, with
\* target in_progress, completed or skipped succeeds and stores the target
\* status on that round; every other round and every other field stay as they were.
C23_TargetStatusStored ==
    [][(/\ HostUpdatesRound(last', groups, rounds)
        /\ last'.new_status \in {"in_progress", "completed", "skipped"})
          => /\ last'.result = "ok"
             /\ rounds' = [rounds EXCEPT ![last'.round_id].status = last'.new_status]]_vars

\* one of two rounds was moved to in_progress while the other stays completed
C23_Witness ==
    /\ last.op = "UpdateRoundStatus" /\ last.result = "ok"
    /\ last.new_status = "in_progress"
    /\ Len(rounds) = 2
    /\ rounds[last.round_id].status = "in_progress"
    /\ \E rid \in DOMAIN rounds : rid # last.round_id /\ rounds[rid].status = "completed"

\* C24: UpdateRoundStatus by the host with target "pending" succeeds and leaves
\* the rounds as they were; a round is created pending; a round whose status is
\* not pending never becomes pending again.
C24_PendingIsNoOp ==
    /\ [][(HostUpdatesRound(last', groups, rounds) /\ last'.new_status = "pending")
             => last'.result = "ok" /\ rounds' = rounds]_vars
    /\ [][\A rid \in DOMAIN rounds' \ DOMAIN rounds : rounds'[rid].status = "pending"]_vars
    /\ [][\A rid \in DOMAIN rounds :
             rounds[rid].status # "pending" => rounds'[rid].status # "pending"]_vars

\* "pending" was requested for a round that is in progress
C24_Witness ==
    /\ last.op = "UpdateRoundStatus" /\ last.result = "ok"
    /\ last.new_status = "pending"
    /\ rounds[last.round_id].status = "in_progress"

C28_UpdateChangesPayloadFieldsOnly ==
    /\ [][(last'.op = "UpdateGroup" /\ last'.result = "ok") =>
             LET gid == last'.group_id
                 payload == last'.payload
             IN /\ DOMAIN groups' = DOMAIN groups
                /\ \A g \in DOMAIN groups \ {gid} : groups'[g] = groups[g]
                /\ groups'[gid].host_id = groups[gid].host_id
                /\ groups'[gid].status = groups[gid].status
                /\ groups'[gid].name =
                      IF payload.name = None THEN groups[gid].name ELSE payload.name[1]
                /\ groups'[gid].max_members =
                      IF payload.max_members = None THEN groups[gid].max_members
                      ELSE payload.max_members[1]]_vars
    /\ [][\A g \in DOMAIN groups \cap DOMAIN groups' :
             groups'[g].host_id = groups[g].host_id]_vars

\* an update that passed a name and no max_members, next to another group
C28_Witness ==
    /\ last.op = "UpdateGroup" /\ last.result = "ok"
    /\ last.payload.name # None /\ last.payload.max_members = None
    /\ DOMAIN groups = {1, 2}
    /\ groups[last.group_id].name = last.payload.name[1]
    /\ groups[last.group_id].max_members = MaxCap
    /\ \E g \in DOMAIN groups : groups[g].name # last.payload.name[1]

\* the group of the AddMember recorded in l is full in (gs, ms)
GroupFull(l, gs, ms) == CountActive(ms, l.group_id) >= gs[l.group_id].max_members

\* the user of the AddMember recorded in l has a row in its group
AlreadyMember(l, ms) == RowsByUserAndGroup(ms, l.user_id, l.group_id) # {}

\* C25: AddMember checks, in this order, that the group exists, that the
\* requester is its host, the capacity and the duplicate, and the first check
\* that fails gives the result: NotFound, then Forbidden (also for a full group
\* or a user already a member), then the capacity error (also for a user
\* already a member), then Duplicate; when none fails the member is added.
C25_FirstFailingCheckDecides ==
    [][last'.op = "AddMember" =>
          /\ last'.group_id \notin DOMAIN groups => last'.result = "NotFoundError"
          /\ ByNonHost(last', groups) => last'.result = "ForbiddenError"
          /\ (ByHost(last', groups) /\ GroupFull(last', groups, members))
                => last'.result = "ValueError"
          /\ (ByHost(last', groups) /\ ~GroupFull(last', groups, members)
                  /\ AlreadyMember(last', members))
                => last'.result = "DuplicateEntityError"
          /\ (ByHost(last', groups) /\ ~GroupFull(last', groups, members)
                  /\ ~AlreadyMember(last', members))
                => last'.result = "ok"
          /\ last'.result # "ok" => members' = members]_vars

\* a requester that is not the host was refused for a full group and a user
\* who is already a member of it
C25_Witness ==
    /\ last.op = "AddMember"
    /\ ByNonHost(last, groups)
    /\ GroupFull(last, groups, members)
    /\ AlreadyMember(last, members)
    /\ last.result = "ForbiddenError"

\* the step is an AddMember by the host of the pair a RemoveMember has just
\* taken out, into a group that has room
ReAddAfterRemove ==
    /\ last.op = "RemoveMember"
    /\ last.result = "ok"
    /\ last'.op = "AddMember"
    /\ last'.group_id = last.member_id[1]
    /\ last'.user_id = last.member_id[2]
    /\ ByHost(last', groups)
    /\ ~GroupFull(last', groups, members)

\* C26: a successful RemoveMember takes the member row out of the store, every
\* stored member has status active, and an AddMember by the host of the user
\* and group just removed succeeds when the group has room.
C26_RemoveDeletesRow ==
    /\ [](\A m \in members : m.status = "active")
    /\ [][(last'.op = "RemoveMember" /\ last'.result = "ok") =>
             /\ \E m \in members : m.id = last'.member_id
             /\ members' = {m \in members : m.id # last'.member_id}]_vars
    /\ [][ReAddAfterRemove =>
             /\ last'.result = "ok"
             /\ Cardinality(RowsByUserAndGroup(members', last'.user_id, last'.group_id)) = 1]_vars

\* a member has just been removed from a group that keeps another member
C26_Witness ==
    /\ last.op = "RemoveMember"
    /\ last.result = "ok"
    /\ last.member_id[1] \in DOMAIN groups
    /\ RowsByUserAndGroup(members, last.member_id[2], last.member_id[1]) = {}
    /\ CountActive(members, last.member_id[1]) = 1
    /\ groups[last.member_id[1]].max_members > 1

\* the round of the request recorded in l is stored in rs, its group is not in gs
RoundOfDeletedGroup(l, gs, rs) ==
    /\ l.round_id \in DOMAIN rs
    /\ rs[l.round_id].group_id \notin DOMAIN gs

\* C27: a successful DeleteGroup removes the group row and nothing else: the
\* member, round and payment stores and the other groups stay as they were;
\* afterwards GetRound still returns a round of the deleted group and
\* RegisterPayment still accepts a first payment of a payer for it.
C27_DeleteGroupNoCascade ==
    /\ [][(last'.op = "DeleteGroup" /\ last'.result = "ok") =>
             /\ members' = members /\ rounds' = rounds /\ payments' = payments
             /\ DOMAIN groups' = DOMAIN groups \ {last'.group_id}
             /\ \A g \in DOMAIN groups' : groups'[g] = groups[g]]_vars
    /\ [][(last'.op = "GetRound" /\ RoundOfDeletedGroup(last', groups, rounds))
             => last'.result = "ok"]_vars
    /\ [][(last'.op = "RegisterPayment" /\ RoundOfDeletedGroup(last', groups, rounds)
              /\ RowsByPayerAndRound(payments, last'.payer_id, last'.round_id) = {})
             => /\ last'.result = "ok"
                /\ Cardinality(payments') = Cardinality(payments) + 1]_vars

\* a payment was accepted for a round of a deleted group that still has a member row
C27_Witness ==
    /\ last.op = "RegisterPayment"
    /\ last.result = "ok"
    /\ RoundOfDeletedGroup(last, groups, rounds)
    /\ \E m \in members : m.group_id = rounds[last.round_id].group_id
    /\ \E p \in payments : p.round_id = last.round_id

\* C29: a RegisterPayment request that has passed its duplicate check writes
\* its row whatever other requests have written since its read, so that two
\* interleaved requests for one (payer_id, round_id) both write and the store
\* holds two payment rows of that pair.
C29_PassedCheckAlwaysWrites ==
    [][\A p \in Procs :
          (reqs[p].pc = "payment_create" /\ reqs'[p] = Idle)
             => /\ last'.result = "ok"
                /\ Cardinality(payments') = Cardinality(payments) + 1
                /\ \E x \in payments' \ payments :
                      x.round_id = reqs[p].round_id /\ x.payer_id = reqs[p].payer_id]_vars

\* both requests are done and two confirmed payment rows of one payer and round are stored
C29_Witness ==
    /\ \A p \in Procs : reqs[p] = Idle
    /\ last.op = "RegisterPayment" /\ last.result = "ok"
    /\ \E x, y \in payments :
          /\ x # y
          /\ x.payer_id = y.payer_id /\ x.round_id = y.round_id
          /\ x.status = "confirmed" /\ y.status = "confirmed"

\* the calls made on the session recorded in r
Called(r) == {r.calls[i] : i \in DOMAIN r.calls}

\* what holds of a session when get_db is about to be left
SessionDone(r) ==
    /\ r.closed
    /\ r.calls[Len(r.calls)] = "close"
    /\ (r.outcome = "return" /\ r.raised = "none")
          => (r.calls = <<"commit", "close">> /\ r.tx = "committed")
    /\ (r.outcome = "return" /\ r.raised # "none")
          => (r.calls = <<"commit", "rollback", "close">> /\ r.tx = "rolled_back")
    /\ r.outcome = "Exception"
          => (r.calls = <<"rollback", "close">> /\ r.raised = "Exception"
              /\ r.tx = "rolled_back")
    /\ r.outcome # "return"
          => ("commit" \notin Called(r) /\ r.raised = r.outcome /\ r.tx = "rolled_back")

\* C30: once the handler of a request has finished, its session is eventually
\* closed, and get_db is never left with the session open.  A handler that
\* returned has its session committed and then closed; when the handler or the
\* commit raised, the session is rolled back, then closed, and the exception
\* leaves get_db; after a raising handler commit is never called and the
\* transaction is never committed.
C30_SessionEventuallyClosed ==
    /\ \A p \in Procs :
          (reqs[p].pc \in {"commit", "rollback", "close"})
             ~> (reqs[p].pc = "done" /\ reqs[p].closed)
    /\ [](\A p \in Procs : reqs[p].pc = "done" => SessionDone(reqs[p]))
    /\ [](\A p \in Procs :
            (reqs[p].pc \notin {"idle", "handler"} /\ reqs[p].outcome # "return")
               => (reqs[p].tx # "committed" /\ "commit" \notin Called(reqs[p])))
    /\ [][\A p \in Procs : (reqs[p] # Idle /\ reqs'[p] = Idle) => reqs[p].pc = "done"]_vars

\* one request left get_db by the exception of its handler, rolled back and
\* closed, while the session of another, whose commit raised, has been closed
C30_Witness ==
    /\ last.op = "get_db"
    /\ last.outcome = "Exception" /\ last.raised = "Exception"
    /\ last.calls = <<"rollback", "close">>
    /\ \E p \in Procs :
          /\ reqs[p].pc = "done"
          /\ reqs[p].calls = <<"commit", "rollback", "close">>
          /\ reqs[p].closed

====
